---- MODULE Spec2Model ----
(***************************************************************************)
(* GazeDetection (src/src/main.py): the per-frame method detect and the    *)
(* part of __init__ that fixes its configuration.                          *)
(*                                                                         *)
(* Numbers.  Landmarks, boxes and frame sizes are integers.  Angles are    *)
(* integer degrees.  A pupil ratio is the integer number of hundredths     *)
(* that round(..., 2) yields; crop paddings are integer hundredths.        *)
(* Every comparison of the code is written on these integers, scaled so    *)
(* that no division is needed.                                             *)
(***************************************************************************)
EXTENDS Integers, Sequences, FiniteSets, TLC

VARIABLES
    self,                 \* the attributes __init__ sets, never written again
    faces,                \* what face_analysis yields for the current frame
    pc,                   \* "idle": frame not yet processed; "returned" / "raised": how detect ended
    face_facing,          \* face_facing of every face whose iteration started, in order
    gaze_facing,          \* gaze_facing of every face whose iteration started, in order
    biggest_face_index,   \* the local of that name when detect ended (0-based)
    dominant,             \* <<i>> when line 293 read faces[i].BOX, else <<>>
    written,              \* the values passed to serial_port.write in this frame
    crop,                 \* <<rect>> when line 307 sliced the frame, else <<>>
    ret_gaze,             \* <<b>>: the gaze_facing detect returned; <<>> if it raised
    saved_info,           \* the saved_info dict when detect returned
    earlier_faces         \* history: some earlier frame of this run held a face

vars == <<self, faces, pc, face_facing, gaze_facing, biggest_face_index,
          dominant, written, crop, ret_gaze, saved_info, earlier_faces>>

-----------------------------------------------------------------------------
(* Program constants *)

FILTERING == "filtering"
GRAD_MEANS == "grad_means"
NO_PUPIL_DETECTION == "no_pupil"

EYE_RATIO_MULTIPLIER == 100
FACE_FACING_SENSIBILITY == 20
GAZE_FACING_SENSIBILITY == 5

\* the literal 200 of the steering test
DeadZone == 200
\* round(x, 2): ratios are kept in hundredths
RatioScale == 100
\* default serial_writing_step
SerialWritingStep == 5
\* default eye_frame_padding[0]
EyePadH == 0
\* default crop_frame_paddings (top, right, bottom, left), in hundredths
CropFramePaddings == <<50, 0, 15, 0>>

(* Bounds of the model *)
MaxFaces == 3

\* frame.shape: (rows, columns)
FrameShape == <<480, 640>>

-----------------------------------------------------------------------------
(* Arithmetic helpers *)

Abs(x) == IF x < 0 THEN -x ELSE x
Max2(a, b) == IF a >= b THEN a ELSE b
Min2(a, b) == IF a <= b THEN a ELSE b

\* int(num/den) for den > 0: truncation toward zero
Trunc(num, den) == IF num >= 0 THEN num \div den ELSE -((-num) \div den)

\* round(num/den) for den > 0, ties to the even neighbour
RoundHalfEvenPos(num, den) ==
    LET q == num \div den
        r == num - q * den
    IN  IF 2 * r < den THEN q
        ELSE IF 2 * r > den THEN q + 1
        ELSE IF q % 2 = 0 THEN q ELSE q + 1

RoundHalfEven(num, den) ==
    IF den > 0 THEN RoundHalfEvenPos(num, den) ELSE RoundHalfEvenPos(-num, -den)

-----------------------------------------------------------------------------
(* Construction *)

\* only the "no_pupil" string disables pupil detection
PupilDetectionForNoPupilOnly(pupil_detection_mode) ==
    IF pupil_detection_mode = NO_PUPIL_DETECTION THEN "None"
    ELSE IF pupil_detection_mode = FILTERING THEN "PupilDetectionFiltering"
    ELSE "PupilDetectionMeansGradient"

\* which pupil detector __init__ installs for a mode string
PupilDetectionFor(pupil_detection_mode) ==
    IF pupil_detection_mode = GRAD_MEANS THEN "PupilDetectionMeansGradient"
    ELSE IF pupil_detection_mode = FILTERING THEN "PupilDetectionFiltering"
    ELSE "None"

\* The attributes set by __init__.  port_opens: serial.Serial(...) succeeded.
\* When it fails the except clause clears only the local print_on_serial, so
\* self.print_on_serial keeps the argument and self.serial_port is never set.
Construct(pupil_detection_mode, print_on_serial, port_opens, crop_frame, sensibility) ==
    [ pupil_detection_mode    |-> pupil_detection_mode,
      pupil_detection         |-> PupilDetectionFor(pupil_detection_mode),
      print_on_serial         |-> print_on_serial,
      has_serial_port         |-> print_on_serial /\ port_opens,
      serial_writing_step     |-> SerialWritingStep,
      eye_frame_padding       |-> EyePadH,
      crop_frame              |-> crop_frame,
      crop_frame_paddings     |-> CropFramePaddings,
      face_facing_sensibility |-> sensibility ]

-----------------------------------------------------------------------------
(* What the collaborators deliver.  A face carries the x coordinates of   *)
(* the four eye corners and its BOX (Landmark Provider), pitch and yaw    *)
(* (Pose Solver), and the crop-local x of each pupil (Pupil Locator).     *)

MkFace(pitch, yaw, l_in, l_out, r_out, r_in, pupil_l, pupil_r, box) ==
    [ pitch |-> pitch, yaw |-> yaw,
      EYE_L_IN |-> l_in, EYE_L_OUT |-> l_out,
      EYE_R_OUT |-> r_out, EYE_R_IN |-> r_in,
      pupil_l |-> pupil_l, pupil_r |-> pupil_r, BOX |-> box ]

\* frames with several faces: a facing face, a turned face, a face whose left
\* eye corners coincide
Looks == { <<0, 0, 140>>, <<0, -30, 140>>, <<0, 0, 100>> }
\* left of the dead zone and off the frame; on either edge of the dead zone;
\* right of the dead zone and past the right border
Boxes == { <<-100, 50, 40, 60>>, <<80, 50, 80, 60>>,
           <<480, 50, 80, 60>>, <<480, 50, 240, 60>> }
Faces == { MkFace(l[1], l[2], 100, l[3], 200, 240, 20, 20, b) : l \in Looks, b \in Boxes }

\* single faces for the classifier: every pairing of these angles and pupils
PoseAngles == { -30, -20, 0, 18, 30 }
PupilXs == { 12, 15, 20, 24, 26, 28, 32 }
PoseFaces == { MkFace(p, y, 100, 140, 200, 240, pl, pr, <<80, 50, 80, 60>>) :
                 p \in PoseAngles, y \in PoseAngles, pl \in PupilXs, pr \in PupilXs }

-----------------------------------------------------------------------------
(* The facing classifier *)

\* the thresholds are inclusive
FaceFacingInclusive(pitch, yaw, sensibility) ==
    Abs(pitch) <= sensibility /\ Abs(yaw) <= sensibility

\* if abs(pitch) < sensibility and abs(yaw) < sensibility
FaceFacing(pitch, yaw, sensibility) ==
    Abs(pitch) < sensibility /\ Abs(yaw) < sensibility

\* frame x of the left / right pupil ("relative localization")
PupilLX(face, pad) == face.EYE_L_IN - pad + face.pupil_l
PupilRX(face, pad) == face.EYE_R_OUT - pad + face.pupil_r

\* round((pupil_x - from) / (to - from) - 0.5, 2), in hundredths; to # from
HRatio(pupil_x, from, to) ==
    RoundHalfEven(RatioScale * (pupil_x - from) - (RatioScale \div 2) * (to - from),
                  to - from)

PupilLRatio(face, pad) == HRatio(PupilLX(face, pad), face.EYE_L_IN, face.EYE_L_OUT)
PupilRRatio(face, pad) == HRatio(PupilRX(face, pad), face.EYE_R_OUT, face.EYE_R_IN)

\* the ratio divisions of a face divide by zero
RatioRaises(face) ==
    face.EYE_L_OUT = face.EYE_L_IN \/ face.EYE_R_IN = face.EYE_R_OUT

\* the facing branch compares against sensibility / (2 * EYE_RATIO_MULTIPLIER)
GazeFacingHalfBound(facing, yaw, l_ratio, r_ratio, sensibility) ==
    IF facing
    THEN 2 * Max2(Abs(l_ratio), Abs(r_ratio)) * EYE_RATIO_MULTIPLIER
           < sensibility * RatioScale
    ELSE IF yaw < 0
            /\ Abs(2 * Abs(l_ratio) * EYE_RATIO_MULTIPLIER - Abs(yaw) * RatioScale)
                 < GAZE_FACING_SENSIBILITY * RatioScale
    THEN TRUE
    ELSE IF yaw > 0
            /\ Abs(2 * Abs(r_ratio) * EYE_RATIO_MULTIPLIER - Abs(yaw) * RatioScale)
                 < GAZE_FACING_SENSIBILITY * RatioScale
    THEN TRUE
    ELSE facing

\* the two yaw branches read the other eye
GazeFacingSwappedEyes(facing, yaw, l_ratio, r_ratio, sensibility) ==
    IF facing
    THEN Max2(Abs(l_ratio), Abs(r_ratio)) * EYE_RATIO_MULTIPLIER
           < sensibility * RatioScale
    ELSE IF yaw < 0
            /\ Abs(2 * Abs(r_ratio) * EYE_RATIO_MULTIPLIER - Abs(yaw) * RatioScale)
                 < GAZE_FACING_SENSIBILITY * RatioScale
    THEN TRUE
    ELSE IF yaw > 0
            /\ Abs(2 * Abs(l_ratio) * EYE_RATIO_MULTIPLIER - Abs(yaw) * RatioScale)
                 < GAZE_FACING_SENSIBILITY * RatioScale
    THEN TRUE
    ELSE facing

\* "facing computation": gaze_facing starts as face_facing and the if / elif
\* chain overwrites it.  Ratios are hundredths, so both sides are scaled by
\* RatioScale.
GazeFacing(facing, yaw, l_ratio, r_ratio, sensibility) ==
    IF facing
    THEN Max2(Abs(l_ratio), Abs(r_ratio)) * EYE_RATIO_MULTIPLIER
           < sensibility * RatioScale
    ELSE IF yaw < 0
            /\ Abs(2 * Abs(l_ratio) * EYE_RATIO_MULTIPLIER - Abs(yaw) * RatioScale)
                 < GAZE_FACING_SENSIBILITY * RatioScale
    THEN TRUE
    ELSE IF yaw > 0
            /\ Abs(2 * Abs(r_ratio) * EYE_RATIO_MULTIPLIER - Abs(yaw) * RatioScale)
                 < GAZE_FACING_SENSIBILITY * RatioScale
    THEN TRUE
    ELSE facing

\* if self.pupil_detection != None
PupilDetectionEnabled(s) == s.pupil_detection # "None"

\* the gaze_facing local at the end of one face's iteration
FaceGaze(s, face) ==
    LET facing == FaceFacing(face.pitch, face.yaw, s.face_facing_sensibility)
    IN  IF PupilDetectionEnabled(s)
        THEN GazeFacing(facing, face.yaw,
                        PupilLRatio(face, s.eye_frame_padding),
                        PupilRRatio(face, s.eye_frame_padding),
                        s.face_facing_sensibility)
        ELSE facing

-----------------------------------------------------------------------------
(* The dominant face *)

Area(face) == face.BOX[3] * face.BOX[4]

\* a later face of equal area replaces the earlier one
AreaIsBiggerOrEqual(current_face_area, biggest_face_area) ==
    current_face_area >= biggest_face_area

\* if current_face_area > biggest_face_area
AreaIsBigger(current_face_area, biggest_face_area) ==
    current_face_area > biggest_face_area

\* the loop's running (biggest_face_index, biggest_face_area) after fs[i..]
RECURSIVE BiggestFaceFrom(_, _, _, _)
BiggestFaceFrom(fs, i, index, area) ==
    IF i > Len(fs) THEN index
    ELSE IF AreaIsBigger(Area(fs[i]), area)
         THEN BiggestFaceFrom(fs, i + 1, i - 1, Area(fs[i]))
         ELSE BiggestFaceFrom(fs, i + 1, index, area)

\* biggest_face_index (0-based) after the loop ran over fs
BiggestFaceIndex(fs) == BiggestFaceFrom(fs, 1, 0, 0)

-----------------------------------------------------------------------------
(* Steering and crop *)

\* the edges of the dead zone steer
SteeringWritesInclusive(s, box, shape) ==
    IF ~(s.print_on_serial /\ s.has_serial_port) THEN <<>>
    ELSE IF 2 * box[1] + box[3] <= shape[2] - 2 * DeadZone
         THEN << -s.serial_writing_step >>
    ELSE IF 2 * box[1] + box[3] >= shape[2] + 2 * DeadZone
         THEN << s.serial_writing_step >>
    ELSE <<>>

\* The values handed to serial_port.write for the dominant box.
\* face_center = fx + fw/2 against frame.shape[1]/2 -+ 200, both doubled.
\* Without the serial_port attribute the write raises inside the try and
\* nothing is handed over.
SteeringWrites(s, box, shape) ==
    IF ~(s.print_on_serial /\ s.has_serial_port) THEN <<>>
    ELSE IF 2 * box[1] + box[3] < shape[2] - 2 * DeadZone
         THEN << -s.serial_writing_step >>
    ELSE IF 2 * box[1] + box[3] > shape[2] + 2 * DeadZone
         THEN << s.serial_writing_step >>
    ELSE <<>>

\* the slice bounds of line 307-308; paddings (top, right, bottom, left)
CropRect(box, pad, shape) ==
    [ row_lo |-> Max2(Trunc(RatioScale * box[2] - box[4] * pad[1], RatioScale), 0),
      row_hi |-> Min2(box[2] + Trunc(box[4] * (RatioScale + pad[3]), RatioScale), shape[1]),
      col_lo |-> Max2(Trunc(RatioScale * box[1] - box[3] * pad[4], RatioScale), 0),
      col_hi |-> Min2(box[1] + Trunc(box[3] * (RatioScale + pad[2]), RatioScale), shape[2]) ]

-----------------------------------------------------------------------------
(* detect *)

\* 1-based position of the first face whose ratio division raises; 0 if the
\* loop runs to its end
FirstRaise(s, fs) ==
    LET bad == { i \in 1..Len(fs) : PupilDetectionEnabled(s) /\ RatioRaises(fs[i]) }
    IN  IF bad = {} THEN 0 ELSE CHOOSE i \in bad : \A j \in bad : i <= j

\* saved_info after the loop: one dict, overwritten by every face
SavedInfo(s, fs) ==
    IF Len(fs) = 0 THEN <<>>
    ELSE LET face == fs[Len(fs)]
         IN  << [ pitch |-> face.pitch, yaw |-> face.yaw,
                  eyes  |-> IF PupilDetectionEnabled(s)
                            THEN << PupilLX(face, s.eye_frame_padding),
                                    PupilRX(face, s.eye_frame_padding) >>
                            ELSE <<>> ] >>

\* an empty frame returns gaze_facing = True
ReturnedGazeEmptyTrue(fs, gaze) ==
    IF Len(fs) > 0 THEN gaze[Len(fs)] ELSE TRUE

\* the gaze of the dominant face is returned
ReturnedGazeOfDominant(fs, gaze) ==
    IF Len(fs) > 0 THEN gaze[BiggestFaceIndex(fs) + 1] ELSE FALSE

\* The gaze_facing detect returns: the local as the last iteration left it,
\* or False from the else branch of `if len(faces)>0`.
ReturnedGaze(fs, gaze) ==
    IF Len(fs) > 0 THEN gaze[Len(fs)] ELSE FALSE

\* The landmark provider finds one more face in the frame to come.
FaceAnalysis(face) ==
    /\ pc = "idle"
    /\ Len(faces) < MaxFaces
    /\ faces' = Append(faces, face)
    /\ UNCHANGED <<self, pc, face_facing, gaze_facing, biggest_face_index,
                   dominant, written, crop, ret_gaze, saved_info, earlier_faces>>

\* The landmark provider finds the single face of a frame.
FaceAnalysisSingle(face) ==
    /\ pc = "idle"
    /\ faces = <<>>
    /\ faces' = <<face>>
    /\ UNCHANGED <<self, pc, face_facing, gaze_facing, biggest_face_index,
                   dominant, written, crop, ret_gaze, saved_info, earlier_faces>>

\* One call of detect on the frame whose faces are `faces`.
Detect ==
    /\ pc = "idle"
    /\ LET n       == Len(faces)
           raise   == FirstRaise(self, faces)
           started == IF raise = 0 THEN n ELSE raise
           ended   == IF raise = 0 THEN n ELSE raise - 1
           facing  == [ i \in 1..started |->
                          FaceFacing(faces[i].pitch, faces[i].yaw,
                                     self.face_facing_sensibility) ]
           gaze    == [ i \in 1..started |->
                          IF i = raise THEN facing[i] ELSE FaceGaze(self, faces[i]) ]
           biggest == BiggestFaceIndex(SubSeq(faces, 1, ended))
       IN  /\ face_facing' = facing
           /\ gaze_facing' = gaze
           /\ biggest_face_index' = biggest
           /\ IF raise # 0
              THEN /\ pc' = "raised"
                   /\ dominant' = <<>>
                   /\ written' = <<>>
                   /\ crop' = <<>>
                   /\ ret_gaze' = <<>>
                   /\ saved_info' = <<>>
              ELSE /\ pc' = "returned"
                   /\ saved_info' = SavedInfo(self, faces)
                   /\ IF n > 0
                      THEN LET box == faces[biggest + 1].BOX
                           IN  /\ dominant' = << biggest >>
                               /\ written' = SteeringWrites(self, box, FrameShape)
                               /\ crop' = IF self.crop_frame
                                          THEN << CropRect(box, self.crop_frame_paddings,
                                                           FrameShape) >>
                                          ELSE <<>>
                               /\ ret_gaze' = << ReturnedGaze(faces, gaze) >>
                      ELSE /\ dominant' = <<>>
                           /\ written' = <<>>
                           /\ crop' = <<>>
                           /\ ret_gaze' = << ReturnedGaze(faces, gaze) >>
    /\ UNCHANGED <<self, faces, earlier_faces>>

\* The caller's loop reads the next frame after detect returned.
NextFrame ==
    /\ pc = "returned"
    /\ pc' = "idle"
    /\ faces' = <<>>
    /\ face_facing' = <<>>
    /\ gaze_facing' = <<>>
    /\ biggest_face_index' = 0
    /\ dominant' = <<>>
    /\ written' = <<>>
    /\ crop' = <<>>
    /\ ret_gaze' = <<>>
    /\ saved_info' = <<>>
    /\ earlier_faces' = (earlier_faces \/ faces # <<>>)
    /\ UNCHANGED self

FrameInit ==
    /\ faces = <<>>
    /\ pc = "idle"
    /\ face_facing = <<>>
    /\ gaze_facing = <<>>
    /\ biggest_face_index = 0
    /\ dominant = <<>>
    /\ written = <<>>
    /\ crop = <<>>
    /\ ret_gaze = <<>>
    /\ saved_info = <<>>
    /\ earlier_faces = FALSE

\* frames of several faces under the default thresholds
Init ==
    /\ self \in { Construct(m, s, o, c, FACE_FACING_SENSIBILITY) :
                    m \in {GRAD_MEANS, NO_PUPIL_DETECTION},
                    s \in BOOLEAN, o \in BOOLEAN, c \in BOOLEAN }
    /\ FrameInit

Next ==
    \/ \E face \in Faces : FaceAnalysis(face)
    \/ Detect
    \/ NextFrame

Spec == Init /\ [][Next]_vars

\* single faces under every mode string and two thresholds
Sensibilities == { FACE_FACING_SENSIBILITY, 30 }
Modes == { GRAD_MEANS, FILTERING, NO_PUPIL_DETECTION, "disabled" }

InitFacing ==
    /\ self \in { Construct(m, FALSE, FALSE, FALSE, t) : m \in Modes, t \in Sensibilities }
    /\ FrameInit

NextFacing ==
    \/ \E face \in PoseFaces : FaceAnalysisSingle(face)
    \/ Detect
    \/ NextFrame

SpecFacing == InitFacing /\ [][NextFacing]_vars

-----------------------------------------------------------------------------
(* Properties *)

Sens == self.face_facing_sensibility
Pad == self.eye_frame_padding
\* the faces whose iteration detect started
Started == 1..Len(face_facing)
\* the faces whose pupil ratios detect computed
WithRatios == { i \in Started : PupilDetectionEnabled(self) /\ ~RatioRaises(faces[i]) }
SerialEnabled == self.print_on_serial /\ self.has_serial_port
FrameH == FrameShape[1]
FrameW == FrameShape[2]

\* C1: for every face, face_facing is true when |pitch| and |yaw| are both
\* below face_facing_sensibility, and false when either is at or beyond it.
C1_FaceFacing ==
    \A i \in Started :
        LET p == faces[i].pitch
            y == faces[i].yaw
        IN  /\ (-Sens < p /\ p < Sens /\ -Sens < y /\ y < Sens) => face_facing[i]
            /\ (p >= Sens \/ p <= -Sens \/ y >= Sens \/ y <= -Sens) => ~face_facing[i]

\* a face with |yaw| exactly at the threshold and |pitch| below it: not facing
C1_Witness ==
    /\ pc = "returned"
    /\ \E i \in Started :
          /\ Abs(faces[i].yaw) = Sens
          /\ Abs(faces[i].pitch) < Sens
          /\ ~face_facing[i]

\* C2 as stated: with face_facing true and ratios available, gaze_facing is
\* true when both ratios are within [-T_f/(2M), T_f/(2M)] and false as soon as
\* one ratio is at or above T_f/(2M) in absolute value.
C2_AsStated ==
    \A i \in WithRatios :
        LET l == Abs(PupilLRatio(faces[i], Pad))
            r == Abs(PupilRRatio(faces[i], Pad))
        IN  face_facing[i] =>
              /\ (2 * l * EYE_RATIO_MULTIPLIER <= Sens * RatioScale
                  /\ 2 * r * EYE_RATIO_MULTIPLIER <= Sens * RatioScale) => gaze_facing[i]
              /\ (2 * l * EYE_RATIO_MULTIPLIER >= Sens * RatioScale
                  \/ 2 * r * EYE_RATIO_MULTIPLIER >= Sens * RatioScale) => ~gaze_facing[i]

\* C2 amended: with face_facing true and ratios available, gaze_facing is
\* true when both ratios are within [-T_f/(2M), T_f/(2M)] and false as soon as
\* one ratio is at or above T_f/M in absolute value.
C2_GazeWhenFacing ==
    \A i \in WithRatios :
        LET l == Abs(PupilLRatio(faces[i], Pad))
            r == Abs(PupilRRatio(faces[i], Pad))
        IN  face_facing[i] =>
              /\ (2 * l * EYE_RATIO_MULTIPLIER <= Sens * RatioScale
                  /\ 2 * r * EYE_RATIO_MULTIPLIER <= Sens * RatioScale) => gaze_facing[i]
              /\ (l * EYE_RATIO_MULTIPLIER >= Sens * RatioScale
                  \/ r * EYE_RATIO_MULTIPLIER >= Sens * RatioScale) => ~gaze_facing[i]

\* a facing face with one ratio exactly T_f/(2M) and the other inside: gaze
\* facing; the frame before or after may hold the T_f/M case
C2_Witness ==
    /\ pc = "returned"
    /\ \E i \in WithRatios :
          /\ face_facing[i]
          /\ 2 * Abs(PupilLRatio(faces[i], Pad)) * EYE_RATIO_MULTIPLIER = Sens * RatioScale
          /\ 2 * Abs(PupilRRatio(faces[i], Pad)) * EYE_RATIO_MULTIPLIER < Sens * RatioScale
          /\ gaze_facing[i]

\* the decision table of the classifier, ratios in hundredths
GazeTable(facing, yaw, l, r, t_f, t_g, m) ==
    IF facing THEN Max2(Abs(l), Abs(r)) * m < t_f * RatioScale
    ELSE IF yaw < 0 THEN Abs(2 * Abs(l) * m - Abs(yaw) * RatioScale) < t_g * RatioScale
    ELSE IF yaw > 0 THEN Abs(2 * Abs(r) * m - Abs(yaw) * RatioScale) < t_g * RatioScale
    ELSE FALSE

\* C3: with ratios available, gaze_facing of a face equals the decision
\* table; with face_facing false and yaw = -30 it is true iff |r_l| lies in
\* the open interval (0.125, 0.175), whatever r_r is.
C3_GazeTable ==
    \A i \in WithRatios :
        LET l == PupilLRatio(faces[i], Pad)
            r == PupilRRatio(faces[i], Pad)
        IN  /\ gaze_facing[i] = GazeTable(face_facing[i], faces[i].yaw, l, r, Sens,
                                          GAZE_FACING_SENSIBILITY, EYE_RATIO_MULTIPLIER)
            /\ (~face_facing[i] /\ faces[i].yaw = -30) =>
                  (gaze_facing[i] <=> (10 * Abs(l) > 125 /\ 10 * Abs(l) < 175))

\* a turned face (yaw = -30) whose left ratio is 0.15 and whose right ratio
\* is 0.30: gaze facing
C3_Witness ==
    /\ pc = "returned"
    /\ \E i \in WithRatios :
          /\ ~face_facing[i]
          /\ faces[i].yaw = -30
          /\ Abs(PupilLRatio(faces[i], Pad)) = 15
          /\ Abs(PupilRRatio(faces[i], Pad)) = 30
          /\ gaze_facing[i]

\* C4: when the mode is neither "grad_means" nor "filtering", every face
\* processed has gaze_facing = face_facing, in every frame.
C4_NoPupilGazeIsFace ==
    (self.pupil_detection_mode \notin {GRAD_MEANS, FILTERING}) =>
        /\ self.pupil_detection = "None"
        /\ \A i \in Started : gaze_facing[i] = face_facing[i]

\* pupil detection off, in a later frame: a facing face whose pupils sit at
\* ratio 0.30, which the pupil branch would reject, is gaze facing
C4_Witness ==
    /\ pc = "returned"
    /\ earlier_faces
    /\ self.pupil_detection_mode \notin {GRAD_MEANS, FILTERING, NO_PUPIL_DETECTION}
    /\ \E i \in Started :
          /\ face_facing[i] /\ gaze_facing[i]
          /\ PupilLRatio(faces[i], Pad) = 30

\* C5: once detect picks the dominant box of a non-empty frame, exactly one
\* index is chosen, its face has the maximum area w*h, and no face before it
\* has that area.
C5_DominantFace ==
    (pc = "returned" /\ faces # <<>>) =>
        /\ Len(dominant) = 1
        /\ dominant[1] = biggest_face_index
        /\ dominant[1] + 1 \in 1..Len(faces)
        /\ \A j \in 1..Len(faces) : Area(faces[j]) <= Area(faces[dominant[1] + 1])
        /\ \A j \in 1..dominant[1] : Area(faces[j]) < Area(faces[dominant[1] + 1])

\* three faces, the last two sharing the largest area: index 1 is chosen
C5_Witness ==
    /\ pc = "returned"
    /\ Len(faces) = 3
    /\ Area(faces[1]) < Area(faces[2])
    /\ Area(faces[2]) = Area(faces[3])
    /\ dominant = <<1>>

\* C6: a frame without faces returns gaze_facing false, is not cropped and
\* writes nothing, under every configuration and after any earlier frames.
C6_EmptyFrame ==
    (pc # "idle" /\ faces = <<>>) =>
        /\ pc = "returned"
        /\ ret_gaze = <<FALSE>>
        /\ crop = <<>>
        /\ written = <<>>

\* an empty frame after frames with faces, with crop and serial both on
C6_Witness ==
    /\ pc = "returned"
    /\ faces = <<>>
    /\ earlier_faces
    /\ self.crop_frame
    /\ SerialEnabled
    /\ ret_gaze = <<FALSE>>

\* C7: for the dominant box of a non-empty frame and an open serial port,
\* -S is written exactly when cx < center - D, +S exactly when
\* cx > center + D, nothing in between (cx = fx + fw/2, center = frame_w/2,
\* both doubled here); never more than one write; none without the port.
C7_Steering ==
    /\ Len(written) <= 1
    /\ ~SerialEnabled => written = <<>>
    /\ (pc = "returned" /\ faces # <<>> /\ SerialEnabled) =>
          LET box == faces[dominant[1] + 1].BOX
              cx2 == 2 * box[1] + box[3]
              S   == self.serial_writing_step
          IN  /\ (written = << -S >>) <=> (cx2 < FrameW - 2 * DeadZone)
              /\ (written = << S >>)  <=> (cx2 > FrameW + 2 * DeadZone)
              /\ (written = <<>>) <=> (FrameW - 2 * DeadZone <= cx2
                                       /\ cx2 <= FrameW + 2 * DeadZone)

\* the dominant face, not the first of the frame, sits exactly on the left
\* edge of the dead zone: nothing is written
C7_Witness ==
    /\ pc = "returned"
    /\ SerialEnabled
    /\ dominant # <<>>
    /\ dominant[1] > 0
    /\ LET box == faces[dominant[1] + 1].BOX
       IN  2 * box[1] + box[3] = FrameW - 2 * DeadZone
    /\ written = <<>>

\* C8: the crop rectangle applied is inside the frame and non-empty.
C8_CropClamped ==
    crop # <<>> =>
        /\ 0 <= crop[1].row_lo /\ crop[1].row_lo < crop[1].row_hi
        /\ crop[1].row_hi <= FrameH
        /\ 0 <= crop[1].col_lo /\ crop[1].col_lo < crop[1].col_hi
        /\ crop[1].col_hi <= FrameW

\* C9: with pupil detection on, a face with coinciding eye corners does not
\* keep detect from processing every face of the frame and returning.
C9_DegenerateFaceConfined ==
    (pc # "idle" /\ PupilDetectionEnabled(self)
       /\ \E i \in 1..Len(faces) : RatioRaises(faces[i])) =>
        /\ pc = "returned"
        /\ Len(face_facing) = Len(faces)

\* C10: what detect returns for a non-empty frame is the gaze_facing and the
\* info record of the last face; the dominant face fixes the crop rectangle
\* and the steering write only.
C10_LastFaceReturned ==
    (pc = "returned" /\ faces # <<>>) =>
        LET n   == Len(faces)
            box == faces[dominant[1] + 1].BOX
        IN  /\ ret_gaze = << gaze_facing[n] >>
            /\ saved_info[1].pitch = faces[n].pitch
            /\ saved_info[1].yaw = faces[n].yaw
            /\ PupilDetectionEnabled(self) =>
                  saved_info[1].eyes = << PupilLX(faces[n], Pad), PupilRX(faces[n], Pad) >>
            /\ written = SteeringWrites(self, box, FrameShape)
            /\ self.crop_frame =>
                  crop = << CropRect(box, self.crop_frame_paddings, FrameShape) >>

\* the dominant face is not the last one and the returned gaze_facing is not
\* the one computed for the dominant face
C10_Witness ==
    /\ pc = "returned"
    /\ dominant # <<>>
    /\ dominant[1] + 1 # Len(faces)
    /\ ret_gaze # << gaze_facing[dominant[1] + 1] >>

====
